---- MODULE Spec2Model ----
(***************************************************************************)
(* State-machine model of src/src/App.tsx: the ETH price tracker's three   *)
(* fetchers (quote, short-term series, 10-year history), the mount effect  *)
(* that sequences them and arms the 15 s interval, the [timeframe] effect, *)
(* and the user's retry / timeframe / unmount events.                      *)
(*                                                                         *)
(* One event-loop task is one action.  A fetcher is split at its network   *)
(* suspension point: the part up to `await fetch(...)` runs inside the     *)
(* action that calls the fetcher (it appends a pending request), and the   *)
(* part after it runs in the action that settles that request.  The        *)
(* continuation of initializeData after an awaited fetcher runs in the     *)
(* microtasks of the same task, so it belongs to the settling action.      *)
(* `await response.json()` writes no state between the two awaits and is   *)
(* folded into the settling action.                                        *)
(*                                                                         *)
(* After the view is removed (Unmount, or a render that throws) the        *)
(* fetchers in flight still run to their end; the cells then hold what     *)
(* their setters were called with, which no render shows any more.         *)
(***************************************************************************)
EXTENDS Integers, Sequences, FiniteSets, TLC

\* ------------------------------------------------------------------ bounds
\* How many events (interval ticks, retry clicks, timeframe clicks) the
\* environment may fire in one session.
MaxEvents == 2
\* The same, in the sessions whose startup is followed to its end (FairSpec).
MaxStartupEvents == 1

\* --------------------------------------------------------- JavaScript values
Null == [t |-> "null"]
Undefined == [t |-> "undefined"]
Num(v) == [t |-> "number", v |-> v]
Str(s) == [t |-> "string", v |-> s]
DateAt(ms) == [t |-> "date", v |-> ms]

\* obj.key on a parsed JSON object: a missing key reads as undefined.
Get(obj, key) == IF key \in DOMAIN obj THEN obj[key] ELSE Undefined

\* s.includes(sub)
Includes(s, sub) ==
  \E i \in 1..(Len(s) - Len(sub) + 1) : SubSeq(s, i, i + Len(sub) - 1) = sub

\* A thrown value: an Error instance with its message.
JsError(msg) == [isError |-> TRUE, message |-> msg]

\* ------------------------------------------------------------ the program
INTERVAL_MS == 15000
HISTORY_DAYS == 3650
DOWNSAMPLE_STRIDE == 30

Timeframes == {"24h", "7d", "30d"}

\* The mapping with a fortnight for '7d'.
DaysFortnight(tf) == IF tf = "24h" THEN 1 ELSE IF tf = "7d" THEN 14 ELSE 30

\* const days = timeframe === '24h' ? 1 : timeframe === '7d' ? 7 : 30
Days(tf) == IF tf = "24h" THEN 1 ELSE IF tf = "7d" THEN 7 ELSE 30

\* response.ok
ResponseOk(resp) == resp.status >= 200 /\ resp.status <= 299

\* new Error(`HTTP error! status: ${response.status}`)
HttpError(resp) == JsError("HTTP error! status: " \o ToString(resp.status))

\* const errorMsg = err instanceof Error ? err.message : 'Failed to fetch ETH price'
\* setError(`Error: ${errorMsg}. Retrying...`)
ErrorText(err) ==
  LET errorMsg == IF err.isError THEN err.message ELSE "Failed to fetch ETH price"
  IN  Str("Error: " \o errorMsg \o ". Retrying...")

\* ------------------------------------------------- the network's answers
\* fetch() rejects (no connection, DNS, CORS): a TypeError.
Rejected == [rejected |-> TRUE, error |-> JsError("Failed to fetch")]
\* fetch() resolves with a status; json says whether the body parses as JSON.
Answer(status, json, body) ==
  [rejected |-> FALSE, status |-> status, json |-> json, body |-> body]

EmptyObject == << >>

\* Quote prices are in thousandths of a dollar, changes in thousandths of a
\* percent: {ethereum: {usd: 3000.5, usd_24h_change: -2.25}} and a second quote.
FullQuotes ==
  { [ethereum |-> [usd |-> Num(3000500), usd_24h_change |-> Num(-2250)]],
    [ethereum |-> [usd |-> Num(3100000), usd_24h_change |-> Num(1000)]] }

\* No connection; 429; 200 with a full quote; 200 with the asset key, or one of
\* its two fields, missing.
QuoteResponses ==
  {Rejected, Answer(429, TRUE, EmptyObject)}
  \cup { Answer(200, TRUE, b) : b \in FullQuotes }
  \cup { Answer(200, TRUE, EmptyObject),
         Answer(200, TRUE, [ethereum |-> [usd |-> Num(3000500)]]),
         Answer(200, TRUE, [ethereum |-> [usd_24h_change |-> Num(1000)]]) }

\* What a try block ends with: a thrown error, or the value it computed.
Throw(err) == [thrown |-> TRUE, err |-> err]
Return(v) == [thrown |-> FALSE, value |-> v]

\* await fetch(...); if (!response.ok) throw ...; await response.json()
ReadJson(resp) ==
  IF resp.rejected THEN Throw(resp.error)
  ELSE IF ~ResponseOk(resp) THEN Throw(HttpError(resp))
  ELSE IF ~resp.json THEN Throw(JsError("Unexpected end of JSON input"))
  ELSE Return(resp.body)

\* The try block of fetchEthPrice up to its first setter: data.ethereum.usd and
\* data.ethereum.usd_24h_change are read before any state is written.
QuoteRead(resp) ==
  LET r == ReadJson(resp) IN
  IF r.thrown THEN r
  ELSE IF "ethereum" \notin DOMAIN r.value
       THEN Throw(JsError("Cannot read properties of undefined (reading 'usd')"))
       ELSE Return([usd |-> Get(r.value.ethereum, "usd"),
                    usd_24h_change |-> Get(r.value.ethereum, "usd_24h_change")])

\* ------------------------------------------------ the two series endpoints
\* Timestamps of the series endpoints are kept in seconds since the epoch (the
\* endpoint's milliseconds do not fit TLC's integers); prices are in thousandths
\* of a dollar.
HOUR_S == 60 * 60
DAY_S == 24 * HOUR_S

\* The market_chart endpoint spaces its points by the window asked for.
ChartPoint(days, i, price) == <<i * days * HOUR_S, price>>

ChartSeries(days) ==
  { << >>,
    <<ChartPoint(days, 1, 110000), ChartPoint(days, 2, 100000),
      ChartPoint(days, 3, 100500)>> }

ChartResponses(days) ==
  {Rejected, Answer(429, TRUE, EmptyObject), Answer(200, TRUE, EmptyObject)}
  \cup { Answer(200, TRUE, [prices |-> s]) : s \in ChartSeries(days) }

\* data.prices.map((price) => ({ timestamp: price[0], price: price[1] }))
FormatChart(prices) ==
  [i \in 1..Len(prices) |-> [timestamp |-> prices[i][1], price |-> prices[i][2]]]

\* The try block of fetchChartData up to setChartData.
ChartRead(resp) ==
  LET r == ReadJson(resp) IN
  IF r.thrown THEN r
  ELSE IF "prices" \notin DOMAIN r.value
       THEN Throw(JsError("Cannot read properties of undefined (reading 'map')"))
       ELSE Return(FormatChart(r.value.prices))

\* Daily points at noon UTC, the first one on day 17000 since the epoch
\* (2016-07-18).
HistoryFirstDay == 17 * 1000
HistoryLengths == {0, 61}
HistoryRaw(n) ==
  [i \in 1..n |-> <<(HistoryFirstDay + i - 1) * DAY_S + 12 * HOUR_S,
                    100000 + i * 1237>>]

HistoryResponses ==
  {Rejected, Answer(429, TRUE, EmptyObject), Answer(200, TRUE, EmptyObject)}
  \cup { Answer(200, TRUE, [prices |-> HistoryRaw(n)]) : n \in HistoryLengths }

\* The local time zone's offset from UTC, which toLocaleDateString applies.
TimezoneOffsets == {-12 * HOUR_S, 13 * HOUR_S}

MonthShort ==
  <<"Jan", "Feb", "Mar", "Apr", "May", "Jun",
    "Jul", "Aug", "Sep", "Oct", "Nov", "Dec">>

\* The proleptic Gregorian (year, month) of a day count since 1970-01-01.
CivilFromDays(z0) ==
  LET z == z0 + 719468
      era == z \div 146097
      doe == z - era * 146097
      yoe == (doe - doe \div 1460 + doe \div 36524 - doe \div 146096) \div 365
      doy == doe - (365 * yoe + yoe \div 4 - yoe \div 100)
      mp == (5 * doy + 2) \div 153
      m == IF mp < 10 THEN mp + 3 ELSE mp - 9
      y == yoe + era * 400 + (IF m <= 2 THEN 1 ELSE 0)
  IN  [year |-> y, month |-> m]

TwoDigits(n) == IF n < 10 THEN "0" \o ToString(n) ELSE ToString(n)

\* new Date(ms).toLocaleDateString('en-US', { month: 'short', year: '2-digit' })
DateLabel(ms, tz) ==
  LET c == CivilFromDays((ms + tz) \div DAY_S)
  IN  MonthShort[c.month] \o " " \o TwoDigits(c.year % 100)

\* Math.round(price * 100) / 100, on thousandths: halves round up.
RoundCents(p) == ((p + 5) \div 10) * 10

\* data.prices.map((price) => ({ date: ..., price: ... }))
FormatHistorical(prices, tz) ==
  [i \in 1..Len(prices) |->
     [date |-> DateLabel(prices[i][1], tz), price |-> RoundCents(prices[i][2])]]

\* A callback that keeps the last item of every thirty instead of the first.
KeepsIndexLast(entry) == entry.idx % DOWNSAMPLE_STRIDE = DOWNSAMPLE_STRIDE - 1

\* The filter's callback, line 90: (_, idx) => idx % 30 === 0.
KeepsIndex(entry) == entry.idx % DOWNSAMPLE_STRIDE = 0

\* formattedData.filter((_, idx) => idx % 30 === 0): the items the callback
\* keeps, in their order.
Downsample(data) ==
  LET entries == [i \in 1..Len(data) |-> [idx |-> i - 1, item |-> data[i]]]
      kept == SelectSeq(entries, KeepsIndex)
  IN  [k \in 1..Len(kept) |-> kept[k].item]

\* The try block of fetchHistoricalData up to setHistoricalData.
HistoryRead(resp, tz) ==
  LET r == ReadJson(resp) IN
  IF r.thrown THEN r
  ELSE IF "prices" \notin DOMAIN r.value
       THEN Throw(JsError("Cannot read properties of undefined (reading 'map')"))
       ELSE Return(Downsample(FormatHistorical(r.value.prices, tz)))

\* ------------------------------------------------------ JavaScript numbers
\* A JavaScript number is an IEEE 754 double: 53 significant bits, every
\* operation rounded to the nearest double, ties to even.  Only zero and the
\* positive normal numbers are modelled (prices and their sums); a number is
\* [m, e] with value m * 2^e and m of exactly 53 bits.  Naturals of any size
\* are bit sequences, most significant bit first.
SIGNIFICAND_BITS == 53
\* The bits a division appends to its dividend, enough to leave a guard bit
\* after a divisor below 2^16.
QuotientBits == SIGNIFICAND_BITS + 17
\* Long division takes the dividend ChunkBits bits at a time.
ChunkBits == 14

Zeros(k) == [i \in 1..k |-> 0]

\* The w bits of v, for v < 2^w.
ToBits(v, w) == [i \in 1..w |-> (v \div 2^(w - i)) % 2]

\* b without its leading zeros.
Trim(b) ==
  LET ones == {i \in 1..Len(b) : b[i] = 1}
  IN  IF ones = {} THEN << >>
      ELSE SubSeq(b, CHOOSE i \in ones : \A j \in ones : i <= j, Len(b))

\* The bits of n, for n < 2^31.
BitsOf(n) == Trim(ToBits(n, 31))

\* The value of a bit sequence no longer than ChunkBits.
RECURSIVE ValueOf(_)
ValueOf(b) ==
  IF b = << >> THEN 0
  ELSE 2 * ValueOf(SubSeq(b, 1, Len(b) - 1)) + b[Len(b)]

\* a + b: position i receives a carry when a less significant position j
\* generates one and every position between them passes it on.
AddBits(a, b) ==
  LET k == 1 + (IF Len(a) > Len(b) THEN Len(a) ELSE Len(b))
      x == Zeros(k - Len(a)) \o a
      y == Zeros(k - Len(b)) \o b
      Carry(i) == \E j \in (i + 1)..k :
                    /\ x[j] + y[j] = 2
                    /\ \A h \in (i + 1)..(j - 1) : x[h] + y[h] >= 1
  IN  Trim([i \in 1..k |-> (x[i] + y[i] + (IF Carry(i) THEN 1 ELSE 0)) % 2])

RECURSIVE DivFrom(_, _, _, _, _)
DivFrom(b, d, i, rem, acc) ==
  IF i * ChunkBits >= Len(b) THEN [q |-> acc, r |-> rem]
  ELSE LET chunk == SubSeq(b, i * ChunkBits + 1, (i + 1) * ChunkBits)
           cur == rem * 2^ChunkBits + ValueOf(chunk)
       IN  DivFrom(b, d, i + 1, cur % d, acc \o ToBits(cur \div d, ChunkBits))

\* b divided by the positive integer d < 2^16: quotient and remainder.
DivBits(b, d) ==
  LET pad == (ChunkBits - (Len(b) % ChunkBits)) % ChunkBits
  IN  DivFrom(Zeros(pad) \o b, d, 0, 0, << >>)

\* a < b, for bit sequences without leading zeros.
LessBits(a, b) ==
  \/ Len(a) < Len(b)
  \/ /\ Len(a) = Len(b)
     /\ \E i \in 1..Len(a) : a[i] < b[i] /\ \A j \in 1..(i - 1) : a[j] = b[j]

Zero == [m |-> << >>, e |-> 0]

\* The double nearest to b * 2^e (plus a fraction below b's last bit when
\* sticky), ties to even.
RoundToDouble(b, e, sticky) ==
  LET t == Trim(b)
      n == Len(t)
  IN  IF n = 0 THEN Zero
      ELSE IF n <= SIGNIFICAND_BITS
        THEN [m |-> t \o Zeros(SIGNIFICAND_BITS - n),
              e |-> e - (SIGNIFICAND_BITS - n)]
        ELSE LET keep == SubSeq(t, 1, SIGNIFICAND_BITS)
                 guard == t[SIGNIFICAND_BITS + 1]
                 rest == sticky \/ \E i \in (SIGNIFICAND_BITS + 2)..n : t[i] = 1
                 up == guard = 1 /\ (rest \/ keep[SIGNIFICAND_BITS] = 1)
                 inc == IF up THEN AddBits(keep, <<1>>) ELSE keep
             IN  IF Len(inc) > SIGNIFICAND_BITS
                   THEN [m |-> SubSeq(inc, 1, SIGNIFICAND_BITS),
                         e |-> e + (n - SIGNIFICAND_BITS) + 1]
                   ELSE [m |-> inc, e |-> e + (n - SIGNIFICAND_BITS)]

\* The number JSON.parse yields for the decimal literal of n thousandths.
JsNumber(n) ==
  LET d == DivBits(BitsOf(n) \o Zeros(QuotientBits), 1000)
  IN  RoundToDouble(d.q, -QuotientBits, d.r # 0)

\* x + y
NumAdd(x, y) ==
  IF x = Zero THEN y
  ELSE IF y = Zero THEN x
  ELSE LET e == IF x.e < y.e THEN x.e ELSE y.e
       IN  RoundToDouble(AddBits(x.m \o Zeros(x.e - e), y.m \o Zeros(y.e - e)),
                         e, FALSE)

\* x / k for a positive integer k < 2^16
NumDiv(x, k) ==
  IF x = Zero THEN Zero
  ELSE LET d == DivBits(x.m \o Zeros(QuotientBits), k)
       IN  RoundToDouble(d.q, x.e - QuotientBits, d.r # 0)

\* x <= y
NumLeq(x, y) ==
  IF x = Zero THEN TRUE
  ELSE IF y = Zero THEN FALSE
  ELSE x.e < y.e \/ (x.e = y.e /\ ~LessBits(y.m, x.m))

\* ------------------------------------------------------------------ state
VARIABLES
  ethPrice, priceChange24h, loading, error, chartData, timeframe, lastUpdate,
  historicalData, loadingHistory,   \* the useState cells, lines 22-30
  mounted,      \* the component is in the tree
  interval,     \* the setInterval handle is armed
  initPc,       \* where initializeData stands
  closureTimeframe,  \* the timeframe of the render whose closures the mount effect holds
  pending,      \* the fetch() calls in flight
  issued,       \* how many fetch() calls each fetcher has made, per caller
  console,      \* the labels console.error has written so far
  now,          \* the clock, in ms since mount
  events        \* how many ticks and clicks have happened

cells == <<ethPrice, priceChange24h, loading, error, chartData, timeframe,
           lastUpdate, historicalData, loadingHistory>>
vars == <<ethPrice, priceChange24h, loading, error, chartData, timeframe,
          lastUpdate, historicalData, loadingHistory, mounted, interval, initPc,
          closureTimeframe, pending, issued, console, now, events>>

\* Who calls which fetcher: initializeData (init), the interval callback (timer),
\* the retry button (retry), the [timeframe] effect (effect).
Fetchers == {"quote", "chart", "history"}
Origins == {"init", "timer", "retry", "effect"}
Callers == Fetchers \X Origins

\* The number of fetch() calls a fetcher has made so far; a request's seq is its
\* rank among its fetcher's calls.
Calls(iss, fetcher) ==
  iss[<<fetcher, "init">>] + iss[<<fetcher, "timer">>]
  + iss[<<fetcher, "retry">>] + iss[<<fetcher, "effect">>]

\* A fetch() call: which fetcher issued it, on whose behalf, and the days
\* parameter of its URL (0: the quote endpoint has none).
Request(seq, fetcher, origin, days) ==
  [seq |-> seq, fetcher |-> fetcher, origin |-> origin, days |-> days]

\* The state of the network after fetcher (called by origin) has issued its
\* fetch(): <<pending, issued>>.
Fetch(net, fetcher, origin, days) ==
  << net[1] \cup {Request(Calls(net[2], fetcher) + 1, fetcher, origin, days)},
     [net[2] EXCEPT ![<<fetcher, origin>>] = @ + 1] >>

\* The network's next state is net.
Network(net) == pending' = net[1] /\ issued' = net[2]

Init ==
  /\ ethPrice = Null
  /\ priceChange24h = Null
  /\ loading = TRUE
  /\ error = Null
  /\ chartData = << >>
  /\ timeframe = "24h"
  /\ lastUpdate = Null
  /\ historicalData = << >>
  /\ loadingHistory = FALSE
  /\ mounted = FALSE
  /\ interval = FALSE
  /\ initPc = "start"
  /\ closureTimeframe = "24h"
  /\ pending = {}
  /\ issued = [c \in Callers |-> 0]
  /\ console = {}
  /\ now = 0
  /\ events = 0

\* ------------------------------------------------------------- the view
\* Line 142 lets undefined through (ethPrice !== null) and line 148 calls
\* ethPrice.toLocaleString on it: the render throws a TypeError.
RenderThrows(price) == price = Undefined

\* React removes a tree whose render threw, running the effects' cleanups
\* (line 115: clearInterval).  The render follows every state change.
Rerender ==
  /\ mounted' = (mounted /\ ~RenderThrows(ethPrice'))
  /\ interval' = (interval /\ mounted')

\* chartData.map(p => p.price), as the numbers the JSON held.
Prices(data) == [i \in 1..Len(data) |-> JsNumber(data[i].price)]

\* Math.min(...xs) and Math.max(...xs) of a non-empty list.
MathMin(xs) ==
  CHOOSE x \in {xs[i] : i \in 1..Len(xs)} : \A i \in 1..Len(xs) : NumLeq(x, xs[i])
MathMax(xs) ==
  CHOOSE x \in {xs[i] : i \in 1..Len(xs)} : \A i \in 1..Len(xs) : NumLeq(xs[i], x)

\* xs.reduce((sum, p) => sum + p, 0), from item i on with sum so far.
RECURSIVE Reduce(_, _, _)
Reduce(xs, i, sum) ==
  IF i > Len(xs) THEN sum ELSE Reduce(xs, i + 1, NumAdd(sum, xs[i]))

\* Lines 122-124.
minPrice == IF Len(chartData) > 0 THEN MathMin(Prices(chartData)) ELSE Zero
maxPrice == IF Len(chartData) > 0 THEN MathMax(Prices(chartData)) ELSE Zero
avgPrice ==
  IF Len(chartData) > 0
    THEN NumDiv(Reduce(Prices(chartData), 1, Zero), Len(chartData))
    ELSE Zero

\* ------------------------------------------------------------ fetchEthPrice
\* fetchEthPrice without line 45: a success leaves the error standing.
FetchEthPriceTryKeepsError(data) ==
  /\ ethPrice' = data.usd
  /\ priceChange24h' = data.usd_24h_change
  /\ lastUpdate' = DateAt(now)
  /\ UNCHANGED <<error, console>>

\* Lines 42-45.
FetchEthPriceTry(data) ==
  /\ ethPrice' = data.usd
  /\ priceChange24h' = data.usd_24h_change
  /\ lastUpdate' = DateAt(now)
  /\ error' = Null
  /\ UNCHANGED console

\* fetchEthPrice with a catch block that also drops the quote it had.
FetchEthPriceCatchClearsQuote(err) ==
  /\ error' = ErrorText(err)
  /\ console' = console \cup {"Fetch error:"}
  /\ ethPrice' = Null
  /\ priceChange24h' = Null
  /\ UNCHANGED lastUpdate

\* Lines 46-50.
FetchEthPriceCatch(err) ==
  /\ error' = ErrorText(err)
  /\ console' = console \cup {"Fetch error:"}
  /\ UNCHANGED <<ethPrice, priceChange24h, lastUpdate>>

\* ----------------------------------------------------------- fetchChartData
\* Line 68.
FetchChartDataTry(formattedData) ==
  /\ chartData' = formattedData
  /\ UNCHANGED console

\* fetchChartData with a catch block that empties the series.
FetchChartDataCatchClearsSeries(err) ==
  /\ console' = console \cup {"Failed to fetch chart data:"}
  /\ chartData' = << >>

\* Lines 69-71.
FetchChartDataCatch(err) ==
  /\ console' = console \cup {"Failed to fetch chart data:"}
  /\ UNCHANGED chartData

\* ------------------------------------------------------ fetchHistoricalData
\* Line 91.
FetchHistoricalDataTry(downsampled) ==
  /\ historicalData' = downsampled
  /\ UNCHANGED console

\* Lines 92-93.
FetchHistoricalDataCatch(err) ==
  /\ console' = console \cup {"Failed to fetch historical data:"}
  /\ UNCHANGED historicalData

\* ------------------------------------------------------------------ actions
\* The first commit's effects, in declaration order: the mount effect (lines
\* 99-116) runs initializeData up to its first await and arms the interval, then
\* the [timeframe] effect (lines 118-120) calls fetchChartData.
Mount ==
  /\ ~mounted
  /\ initPc = "start"
  /\ mounted' = TRUE
  /\ loading' = TRUE
  /\ closureTimeframe' = timeframe
  /\ initPc' = "quote"
  /\ interval' = TRUE
  /\ Network(Fetch(Fetch(<<pending, issued>>, "quote", "init", 0),
                   "chart", "effect", Days(timeframe)))
  /\ UNCHANGED <<ethPrice, priceChange24h, error, chartData, timeframe,
                 lastUpdate, historicalData, loadingHistory, now, events,
                 console>>

\* An interval callback that refreshes the history along with the quote.
TimerTickRefetchesHistory ==
  /\ interval
  /\ events < MaxEvents
  /\ events' = events + 1
  /\ now' = now + INTERVAL_MS
  /\ loadingHistory' = TRUE
  /\ Network(Fetch(Fetch(<<pending, issued>>, "quote", "timer", 0),
                   "history", "timer", HISTORY_DAYS))
  /\ UNCHANGED <<ethPrice, priceChange24h, loading, error, chartData, timeframe,
                 lastUpdate, historicalData, mounted, interval, initPc,
                 closureTimeframe, console>>

\* The interval callback, lines 111-113.
TimerTick ==
  /\ interval
  /\ events < MaxEvents
  /\ events' = events + 1
  /\ now' = now + INTERVAL_MS
  /\ Network(Fetch(<<pending, issued>>, "quote", "timer", 0))
  /\ UNCHANGED <<cells, mounted, interval, initPc, closureTimeframe, console>>

\* The retry button, line 138, rendered while error is truthy.
Retry ==
  /\ mounted
  /\ error # Null
  /\ events < MaxEvents
  /\ events' = events + 1
  /\ Network(Fetch(<<pending, issued>>, "quote", "retry", 0))
  /\ UNCHANGED <<cells, mounted, interval, initPc, closureTimeframe, now,
                 console>>

\* A timeframe button, lines 181-198, rendered while ethPrice !== null.  A click
\* on the selected timeframe changes no state and runs no effect; any other
\* re-renders and runs the [timeframe] effect with the new render's closure.
SetTimeframe(tf) ==
  /\ mounted
  /\ ethPrice # Null
  /\ events < MaxEvents
  /\ events' = events + 1
  /\ timeframe' = tf
  /\ Network(IF tf = timeframe THEN <<pending, issued>>
               ELSE Fetch(<<pending, issued>>, "chart", "effect", Days(tf)))
  /\ UNCHANGED <<ethPrice, priceChange24h, loading, error, chartData,
                 lastUpdate, historicalData, loadingHistory, mounted, interval,
                 initPc, closureTimeframe, now, console>>

\* The mount effect without its cleanup: the interval outlives the view.
UnmountLeavesInterval ==
  /\ mounted
  /\ mounted' = FALSE
  /\ UNCHANGED <<cells, interval, initPc, closureTimeframe, pending, issued,
                 console, now, events>>

\* The view is removed; the mount effect's cleanup, line 115, clears the interval.
Unmount ==
  /\ mounted
  /\ mounted' = FALSE
  /\ interval' = FALSE
  /\ UNCHANGED <<cells, initPc, closureTimeframe, pending, issued, console,
                 now, events, console>>

\* initializeData with line 104 not awaited: the short-term and the historical
\* fetch start together.
InitializeDataAfterQuoteNoAwait(net, threw) ==
  /\ initPc' = "history"
  /\ loadingHistory' = TRUE
  /\ Network(Fetch(Fetch(net, "chart", "init", Days(closureTimeframe)),
                   "history", "init", HISTORY_DAYS))
  /\ UNCHANGED loading

\* fetchEthPrice rethrowing from its catch block: initializeData stops at line
\* 103 when the quote fetch fails.
InitializeDataAfterQuoteAborts(net, threw) ==
  IF threw
    THEN Network(net) /\ UNCHANGED <<initPc, loading, loadingHistory>>
    ELSE /\ initPc' = "chart"
         /\ Network(Fetch(net, "chart", "init", Days(closureTimeframe)))
         /\ UNCHANGED <<loading, loadingHistory>>

\* initializeData resumes after `await fetchEthPrice()` (line 103) and runs to
\* its next await: fetchChartData of the mount render up to its fetch (line 104).
\* fetchEthPrice catches whatever it throws, so the await never rejects and
\* threw, whether its try block threw, changes nothing here.
InitializeDataAfterQuote(net, threw) ==
  /\ initPc' = "chart"
  /\ Network(Fetch(net, "chart", "init", Days(closureTimeframe)))
  /\ UNCHANGED <<loading, loadingHistory>>

\* A quote request settles: the rest of fetchEthPrice (lines 38-50), and, for
\* the mount effect's call, the next stretch of initializeData.
QuoteSettles(r, resp) ==
  /\ r \in pending
  /\ r.fetcher = "quote"
  /\ LET read == QuoteRead(resp)
         net == <<pending \ {r}, issued>>
     IN  /\ IF read.thrown THEN FetchEthPriceCatch(read.err)
                           ELSE FetchEthPriceTry(read.value)
         /\ IF r.origin = "init"
              THEN InitializeDataAfterQuote(net, read.thrown)
              ELSE Network(net) /\ UNCHANGED <<initPc, loading, loadingHistory>>
  /\ Rerender
  /\ UNCHANGED <<chartData, timeframe, historicalData, closureTimeframe, now,
                 events>>

\* initializeData with line 105 not awaited: line 106 runs at once.
InitializeDataAfterChartNoAwait(net, threw) ==
  /\ initPc' = "done"
  /\ loadingHistory' = TRUE
  /\ loading' = FALSE
  /\ Network(Fetch(net, "history", "init", HISTORY_DAYS))

\* initializeData resumes after `await fetchChartData()` (line 104) and runs to
\* its next await: fetchHistoricalData up to its fetch (line 105; line 75 sets
\* the loading flag).  fetchChartData catches whatever it throws.
InitializeDataAfterChart(net, threw) ==
  /\ initPc' = "history"
  /\ loadingHistory' = TRUE
  /\ Network(Fetch(net, "history", "init", HISTORY_DAYS))
  /\ UNCHANGED loading

\* fetchChartData dropping an answer that is not for the selected timeframe.
ChartSettlesDropsStale(r, resp) ==
  /\ r \in pending
  /\ r.fetcher = "chart"
  /\ LET read == ChartRead(resp)
         net == <<pending \ {r}, issued>>
     IN  /\ IF read.thrown THEN FetchChartDataCatch(read.err)
           ELSE IF r.days = Days(timeframe) THEN FetchChartDataTry(read.value)
           ELSE UNCHANGED <<chartData, console>>
         /\ IF r.origin = "init"
              THEN InitializeDataAfterChart(net, read.thrown)
              ELSE Network(net) /\ UNCHANGED <<initPc, loading, loadingHistory>>
  /\ UNCHANGED <<ethPrice, priceChange24h, error, timeframe, lastUpdate,
                 historicalData, mounted, interval, closureTimeframe, now,
                 events>>

\* fetchChartData clearing the quote's error when it stores a series.
ChartSettlesClearsError(r, resp) ==
  /\ r \in pending
  /\ r.fetcher = "chart"
  /\ LET read == ChartRead(resp)
         net == <<pending \ {r}, issued>>
     IN  /\ IF read.thrown THEN FetchChartDataCatch(read.err)
                           ELSE FetchChartDataTry(read.value)
         /\ error' = IF read.thrown THEN error ELSE Null
         /\ IF r.origin = "init"
              THEN InitializeDataAfterChart(net, read.thrown)
              ELSE Network(net) /\ UNCHANGED <<initPc, loading, loadingHistory>>
  /\ UNCHANGED <<ethPrice, priceChange24h, timeframe, lastUpdate,
                 historicalData, mounted, interval, closureTimeframe, now,
                 events>>

\* A short-term request settles: the rest of fetchChartData (lines 60-71), and,
\* for the mount effect's call, the next stretch of initializeData.
ChartSettles(r, resp) ==
  /\ r \in pending
  /\ r.fetcher = "chart"
  /\ LET read == ChartRead(resp)
         net == <<pending \ {r}, issued>>
     IN  /\ IF read.thrown THEN FetchChartDataCatch(read.err)
                           ELSE FetchChartDataTry(read.value)
         /\ IF r.origin = "init"
              THEN InitializeDataAfterChart(net, read.thrown)
              ELSE Network(net) /\ UNCHANGED <<initPc, loading, loadingHistory>>
  /\ UNCHANGED <<ethPrice, priceChange24h, error, timeframe, lastUpdate,
                 historicalData, mounted, interval, closureTimeframe, now,
                 events>>

\* initializeData resumes after `await fetchHistoricalData()` (line 105) and
\* ends (line 106).  fetchHistoricalData catches whatever it throws.
InitializeDataAfterHistory(net, threw) ==
  /\ initPc' = "done"
  /\ loading' = FALSE
  /\ Network(net)

\* fetchHistoricalData with line 95 at the end of the try block instead of in
\* a finally block: a failure leaves the loading flag set.
HistorySettlesNoFinally(r, resp, tz) ==
  /\ r \in pending
  /\ r.fetcher = "history"
  /\ LET read == HistoryRead(resp, tz)
         net == <<pending \ {r}, issued>>
     IN  /\ IF read.thrown THEN FetchHistoricalDataCatch(read.err)
                           ELSE FetchHistoricalDataTry(read.value)
         /\ loadingHistory' = IF read.thrown THEN loadingHistory ELSE FALSE
         /\ IF r.origin = "init"
              THEN InitializeDataAfterHistory(net, read.thrown)
              ELSE Network(net) /\ UNCHANGED <<initPc, loading>>
  /\ UNCHANGED <<ethPrice, priceChange24h, error, chartData, timeframe,
                 lastUpdate, mounted, interval, closureTimeframe, now, events>>

\* The historical request settles: the rest of fetchHistoricalData (lines
\* 81-96), then the end of initializeData.
HistorySettles(r, resp, tz) ==
  /\ r \in pending
  /\ r.fetcher = "history"
  /\ LET read == HistoryRead(resp, tz)
         net == <<pending \ {r}, issued>>
     IN  /\ IF read.thrown THEN FetchHistoricalDataCatch(read.err)
                           ELSE FetchHistoricalDataTry(read.value)
         /\ loadingHistory' = FALSE
         /\ IF r.origin = "init"
              THEN InitializeDataAfterHistory(net, read.thrown)
              ELSE Network(net) /\ UNCHANGED <<initPc, loading>>
  /\ UNCHANGED <<ethPrice, priceChange24h, error, chartData, timeframe,
                 lastUpdate, mounted, interval, closureTimeframe, now, events>>

\* A request in flight settles, with one of the answers its endpoint can give.
QuoteSettlesSome ==
  \E r \in pending : \E resp \in QuoteResponses : QuoteSettles(r, resp)
ChartSettlesSome ==
  \E r \in pending : \E resp \in ChartResponses(r.days) : ChartSettles(r, resp)
HistorySettlesSome ==
  \E r \in pending : \E resp \in HistoryResponses :
    \E tz \in TimezoneOffsets : HistorySettles(r, resp, tz)

Next ==
  \/ Mount
  \/ TimerTick
  \/ Retry
  \/ \E tf \in Timeframes : SetTimeframe(tf)
  \/ Unmount
  \/ QuoteSettlesSome
  \/ ChartSettlesSome
  \/ HistorySettlesSome

Spec == Init /\ [][Next]_vars

\* A request of the startup sequence that is in flight settles.
InitSettles(fetcher) ==
  \E r \in pending :
    /\ r.fetcher = fetcher
    /\ r.origin = "init"
    /\ \/ \E resp \in QuoteResponses : QuoteSettles(r, resp)
       \/ \E resp \in ChartResponses(r.days) : ChartSettles(r, resp)
       \/ \E resp \in HistoryResponses :
            \E tz \in TimezoneOffsets : HistorySettles(r, resp, tz)

\* The sessions with at most MaxStartupEvents ticks and clicks.
StartupNext ==
  \/ Mount
  \/ events < MaxStartupEvents /\ TimerTick
  \/ events < MaxStartupEvents /\ Retry
  \/ events < MaxStartupEvents /\ \E tf \in Timeframes : SetTimeframe(tf)
  \/ Unmount
  \/ QuoteSettlesSome
  \/ ChartSettlesSome
  \/ HistorySettlesSome

\* The first commit runs its effects, and every request of the startup sequence
\* eventually resolves or rejects.
FairSpec ==
  /\ Init
  /\ [][StartupNext]_vars
  /\ WF_vars(Mount)
  /\ \A f \in Fetchers : WF_vars(InitSettles(f))

\* ------------------------------------------ startups over a range of series
\* The longest short-term series the endpoint answers with.
MaxSeriesLen == 3

\* Prices in thousandths of a dollar: 100.000 and 1000.021.
SeriesPrices == {100 * 1000, 1000 * 1000 + 21}

\* Every series of up to MaxSeriesLen points with those prices.
WideChartSeries(days) ==
  { [i \in 1..Len(ps) |-> ChartPoint(days, i, ps[i])] :
      ps \in UNION { [1..k -> SeriesPrices] : k \in 0..MaxSeriesLen } }

\* A short-term request settles with a 200 answer carrying one of them.
ChartSettlesWide ==
  \E r \in pending : \E s \in WideChartSeries(r.days) :
    ChartSettles(r, Answer(200, TRUE, [prices |-> s]))

\* The startup, with no tick and no click, over those series.
StatsNext ==
  \/ Mount
  \/ QuoteSettlesSome
  \/ ChartSettlesWide
  \/ HistorySettlesSome

StatsSpec == Init /\ [][StatsNext]_vars

\* The most raw points of a historical answer, short of the full ten years.
MaxRawPoints == 61

\* Every length up to MaxRawPoints, and the 3650 points of ten years.
WideHistoryLengths == (0..MaxRawPoints) \cup {HISTORY_DAYS}

\* The historical request settles with a 200 answer of one of those lengths.
HistorySettlesWide ==
  \E r \in pending : \E n \in WideHistoryLengths : \E tz \in TimezoneOffsets :
    HistorySettles(r, Answer(200, TRUE, [prices |-> HistoryRaw(n)]), tz)

\* The startup, with no tick and no click, over those lengths.
HistoryNext ==
  \/ Mount
  \/ QuoteSettlesSome
  \/ ChartSettlesSome
  \/ HistorySettlesWide

HistorySpec == Init /\ [][HistoryNext]_vars

\* ------------------------------------------------------------------ claims
\* The answers with which a fetch fails on the transport or the status line.
TransportFailure(resp) == resp.rejected \/ ~ResponseOk(resp)

\* C1: every quote fetch (whoever issued it) that ends in a network error or a
\* non-2xx status leaves ethPrice and priceChange24h as they were and sets error
\* to a non-empty string that contains "Retrying".
C1_FailedQuoteKeepsQuote ==
  [][\A r \in pending : \A resp \in QuoteResponses :
       (TransportFailure(resp) /\ QuoteSettles(r, resp)) =>
         /\ ethPrice' = ethPrice
         /\ priceChange24h' = priceChange24h
         /\ error' # Null
         /\ error'.t = "string"
         /\ Len(error'.v) > 0
         /\ Includes(error'.v, "Retrying")]_vars

\* A quote is on display and the 429 message stands beside it: a fetch failed
\* after one had succeeded.
C1_Witness ==
  /\ ethPrice = Num(3000500)
  /\ priceChange24h = Num(-2250)
  /\ error = Str("Error: HTTP error! status: 429. Retrying...")

\* C2: every quote fetch that ends with a 2xx answer carrying the asset's record
\* stores that record's usd and usd_24h_change, stamps lastUpdate with the
\* current time and clears error, whatever error held before.
C2_SuccessfulQuoteStored ==
  [][\A r \in pending : \A resp \in QuoteResponses :
       (/\ ~TransportFailure(resp)
        /\ "ethereum" \in DOMAIN resp.body
        /\ QuoteSettles(r, resp)) =>
         /\ ethPrice' = Get(resp.body.ethereum, "usd")
         /\ priceChange24h' = Get(resp.body.ethereum, "usd_24h_change")
         /\ lastUpdate' = DateAt(now)
         /\ error' = Null]_vars

\* The retry button was used (so an error stood), and a later quote is stored
\* with the error gone.
C2_Witness ==
  /\ issued[<<"quote", "retry">>] = 1
  /\ ethPrice = Num(3100000)
  /\ priceChange24h = Num(1000)
  /\ lastUpdate = DateAt(now)
  /\ error = Null

\* C3: the quote is wholly absent or wholly present: ethPrice, priceChange24h
\* and lastUpdate are all null, or a number, a number and a date.
C3_QuoteWholeOrAbsent ==
  \/ ethPrice = Null /\ priceChange24h = Null /\ lastUpdate = Null
  \/ ethPrice.t = "number" /\ priceChange24h.t = "number" /\ lastUpdate.t = "date"

\* C4: every short-term fetch that fails (network error, non-2xx status, or a
\* body without prices) leaves chartData and error as they were.
C4_FailedChartKeepsSeries ==
  [][\A r \in pending : \A resp \in ChartResponses(r.days) :
       (/\ TransportFailure(resp) \/ "prices" \notin DOMAIN resp.body
        /\ ChartSettles(r, resp)) =>
         /\ chartData' = chartData
         /\ error' = error]_vars

\* A short-term fetch has failed, a series is held and no error is shown.
C4_Witness ==
  /\ "Failed to fetch chart data:" \in console
  /\ chartData # << >>
  /\ ethPrice # Null
  /\ error = Null

\* Some request of the startup sequence is in flight for the fetcher.
InitPending(fetcher) ==
  \E r \in pending : r.fetcher = fetcher /\ r.origin = "init"

\* The startup sequence's call of the fetcher has been made and has settled.
InitDone(fetcher) ==
  issued[<<fetcher, "init">>] = 1 /\ ~InitPending(fetcher)

\* C5: the historical request is issued at most once in a session, by the
\* startup sequence alone, and it has been issued once the sequence's short-term
\* fetch has settled; ticks, clicks and its own failure never issue it again.
C5_HistoricalOnce ==
  /\ Calls(issued, "history") <= 1
  /\ Calls(issued, "history") = issued[<<"history", "init">>]
  /\ InitDone("chart") => Calls(issued, "history") = 1
  /\ \A r \in pending : r.fetcher = "history" => r.days = HISTORY_DAYS

\* The historical fetch has failed, two further events have happened, nothing
\* is in flight any more.
C5_Witness ==
  /\ "Failed to fetch historical data:" \in console
  /\ historicalData = << >>
  /\ events >= 2
  /\ now > 0
  /\ pending = {}
  /\ Calls(issued, "history") = 1

\* The days parameters of the short-term requests a step issues.
NewChartDays ==
  { r.days : r \in { q \in pending' : /\ q.fetcher = "chart"
                                       /\ q.seq > Calls(issued, "chart") } }

\* C6: a short-term request is issued once at startup, for day-count 1, and
\* once for each change of timeframe, for the new timeframe's day-count; no
\* other step issues one.
C6_ShortTermOncePerTrigger ==
  [][LET n == Calls(issued', "chart") - Calls(issued, "chart") IN
     IF timeframe' # timeframe
       THEN n = 1 /\ NewChartDays = {Days(timeframe')}
       ELSE IF Calls(issued, "chart") = 0
              THEN n = 0 \/ (n = 1 /\ NewChartDays = {1})
              ELSE n = 0]_vars

\* C7: the startup sequence issues its short-term request only once its quote
\* fetch has settled, and its historical request only once its short-term
\* fetch has settled.
C7_StartupInSequence ==
  /\ issued[<<"quote", "init">>] <= 1
  /\ issued[<<"chart", "init">>] <= 1
  /\ issued[<<"chart", "init">>] = 1 => InitDone("quote")
  /\ issued[<<"history", "init">>] = 1 => InitDone("quote") /\ InitDone("chart")

\* The sequence's historical request is in flight.
C7_Witness ==
  /\ InitPending("history")
  /\ InitDone("quote")
  /\ InitDone("chart")

\* C8: loading is true until all three startup fetches have settled: whenever
\* it is false, each has been issued and none is in flight.
C8_LoadingUntilAllDone ==
  /\ initPc = "start" => loading
  /\ ~loading => \A f \in Fetchers : InitDone(f)

\* Loading is cleared although a tick's quote request is still in flight.
C8_Witness ==
  /\ ~loading
  /\ \A f \in Fetchers : InitDone(f)
  /\ \E r \in pending : r.fetcher = "quote" /\ r.origin = "timer"

\* C9: whatever the three startup fetches end with, all three are issued and,
\* when each of them resolves or rejects, loading is eventually cleared.
C9_StartupCompletes ==
  <>(~loading /\ \A f \in Fetchers : InitDone(f))

\* Loading is cleared after the quote, the short-term and the historical
\* fetcher have all failed and no tick or click has happened.
C9_Witness ==
  /\ ~loading
  /\ events = 0
  /\ ethPrice = Null
  /\ error # Null
  /\ chartData = << >>
  /\ historicalData = << >>
  /\ console = {"Fetch error:", "Failed to fetch chart data:",
                "Failed to fetch historical data:"}

\* C10: during startup, with no tick and no user action, at most one request is
\* in flight.
C10_OneRequestDuringStartup ==
  (loading /\ events = 0) => Cardinality(pending) <= 1

\* The 2xx answers whose JSON lacks what the fetcher reads: a malformed payload.
MalformedQuote(resp) ==
  /\ ~TransportFailure(resp)
  /\ \/ ~resp.json
     \/ "ethereum" \notin DOMAIN resp.body
     \/ Get(resp.body.ethereum, "usd") = Undefined
     \/ Get(resp.body.ethereum, "usd_24h_change") = Undefined
MalformedSeries(resp) ==
  /\ ~TransportFailure(resp)
  /\ ~resp.json \/ "prices" \notin DOMAIN resp.body

\* C11: no failed fetch (network error, non-2xx status, malformed payload) of
\* the quote, the short-term or the historical fetcher halts the interval: the
\* step that settles it leaves the interval armed if it was armed.
C11_FailureKeepsTimer ==
  [][\A r \in pending :
       /\ \A resp \in QuoteResponses :
            (/\ TransportFailure(resp) \/ MalformedQuote(resp)
             /\ QuoteSettles(r, resp)) => interval' = interval
       /\ \A resp \in ChartResponses(r.days) :
            (/\ TransportFailure(resp) \/ MalformedSeries(resp)
             /\ ChartSettles(r, resp)) => interval' = interval
       /\ \A resp \in HistoryResponses : \A tz \in TimezoneOffsets :
            (/\ TransportFailure(resp) \/ MalformedSeries(resp)
             /\ HistorySettles(r, resp, tz)) => interval' = interval]_vars

\* Some historical request is in flight.
HistoryInFlight == \E r \in pending : r.fetcher = "history"

\* The view's historical section, lines 223-261, inside the block that line 142
\* renders while ethPrice !== null: the loading text while loadingHistory, the
\* chart when the series is non-empty, else "Failed to load historical data".
HistoryFailedShown ==
  /\ mounted
  /\ ethPrice # Null
  /\ ~loadingHistory
  /\ Len(historicalData) = 0

\* C12: the view shows "Failed to load historical data" only once the
\* historical request has been issued and has settled leaving the series empty;
\* never before the request is issued nor while it is in flight.
C12_HistoryFailedOnlyAfterLoad ==
  HistoryFailedShown =>
    /\ Calls(issued, "history") >= 1
    /\ ~HistoryInFlight

\* The days parameters of the short-term requests in flight.
ChartDaysInFlight == { r.days : r \in { q \in pending : q.fetcher = "chart" } }

\* C13: the day-count of a timeframe is 1 for 24h, 7 for 7d and 30 for 30d,
\* and every short-term request carries a day-count that is one of 1, 7, 30.
C13_DayCounts ==
  /\ Days("24h") = 1
  /\ Days("7d") = 7
  /\ Days("30d") = 30
  /\ \A tf \in Timeframes : Days(tf) \in {1, 7, 30}
  /\ ChartDaysInFlight \subseteq {1, 7, 30}

\* Short-term requests for all three timeframes are in flight at once.
C13_Witness ==
  /\ ChartDaysInFlight = {1, 7, 30}
  /\ timeframe = "30d"

\* C14: for the series in chartData, when it is non-empty minPrice and
\* maxPrice are the least and the greatest of its prices and
\* minPrice <= avgPrice <= maxPrice; when it is empty all three are 0.
C14_DerivedStats ==
  LET xs == Prices(chartData) IN
  IF Len(chartData) > 0
    THEN /\ \E i \in 1..Len(xs) : minPrice = xs[i]
         /\ \A i \in 1..Len(xs) : NumLeq(minPrice, xs[i])
         /\ \E i \in 1..Len(xs) : maxPrice = xs[i]
         /\ \A i \in 1..Len(xs) : NumLeq(xs[i], maxPrice)
         /\ NumLeq(minPrice, avgPrice)
         /\ NumLeq(avgPrice, maxPrice)
    ELSE minPrice = Zero /\ maxPrice = Zero /\ avgPrice = Zero

\* What a successful historical fetch stores, for each answer of HistorySpec
\* and each time zone.
StoredSeries ==
  [n \in WideHistoryLengths, tz \in TimezoneOffsets |->
     HistoryRead(Answer(200, TRUE, [prices |-> HistoryRaw(n)]), tz).value]

\* C15: a historical fetch that succeeds with N raw points stores exactly
\* ceil(N / 30) points, the k-th of them (from 0) being the transform of raw
\* point 30 * k; 3650 raw points give 122 points, the last from raw point 3630.
C15_EveryThirtiethPoint ==
  [][\A r \in pending : \A n \in WideHistoryLengths : \A tz \in TimezoneOffsets :
       LET raw == HistoryRaw(n) IN
       (/\ historicalData' = StoredSeries[n, tz]
        /\ HistorySettles(r, Answer(200, TRUE, [prices |-> raw]), tz)) =>
         /\ Len(historicalData') = (n + 29) \div 30
         /\ \A k \in 0..(Len(historicalData') - 1) :
              historicalData'[k + 1] =
                [date |-> DateLabel(raw[30 * k + 1][1], tz),
                 price |-> RoundCents(raw[30 * k + 1][2])]
         /\ n = 3650 => /\ Len(historicalData') = 122
                        /\ 30 * (Len(historicalData') - 1) = 3630]_vars

\* The ten years are stored: 122 points, none of them from a failed fetch.
C15_Witness ==
  /\ Len(historicalData) = 122
  /\ "Failed to fetch historical data:" \notin console
  /\ ~loadingHistory

\* C16: loadingHistory is true exactly while the historical request is in
\* flight: false before it is issued and false once it has settled, with a
\* series or with a failure.
C16_LoadingHistoryWhileInFlight ==
  /\ loadingHistory <=> HistoryInFlight
  /\ (Calls(issued, "history") = 1 /\ ~HistoryInFlight) => ~loadingHistory

\* The historical fetch has failed and the flag is down again.
C16_Witness ==
  /\ "Failed to fetch historical data:" \in console
  /\ Calls(issued, "history") = 1
  /\ ~HistoryInFlight
  /\ ~loadingHistory
  /\ ~loading

\* C17: each fetcher writes its own cells only.  The step in which a quote
\* fetch settles leaves chartData, historicalData, loadingHistory and timeframe
\* as they were; one in which a short-term fetch settles leaves ethPrice,
\* priceChange24h, lastUpdate, error and historicalData as they were, and
\* loadingHistory too unless initializeData goes on to call
\* fetchHistoricalData in that step; one in which the historical fetch settles
\* leaves ethPrice, priceChange24h, lastUpdate, error, chartData and timeframe
\* as they were.
C17_FetchersWriteOwnCells ==
  [][\A r \in pending \ pending' :
       /\ r.fetcher = "quote" =>
            UNCHANGED <<chartData, historicalData, loadingHistory, timeframe>>
       /\ r.fetcher = "chart" =>
            /\ UNCHANGED <<ethPrice, priceChange24h, lastUpdate, error,
                           historicalData>>
            /\ \/ UNCHANGED loadingHistory
               \/ /\ r.origin = "init"
                  /\ loadingHistory'
                  /\ Calls(issued', "history") = Calls(issued, "history") + 1
       /\ r.fetcher = "history" =>
            UNCHANGED <<ethPrice, priceChange24h, lastUpdate, error, chartData,
                        timeframe>>]_vars

\* Every slice holds data of its own fetcher: the second quote after a tick, a
\* weekly series after a click, the history, and nothing is in flight.
C17_Witness ==
  /\ ethPrice = Num(3100000)
  /\ error = Null
  /\ timeframe = "7d"
  /\ Len(chartData) > 0
  /\ Len(historicalData) > 0
  /\ issued[<<"quote", "timer">>] = 1
  /\ pending = {}

\* C18: every short-term fetch that succeeds stores its own answer in
\* chartData, also when its day-count is no longer that of the selected
\* timeframe and when requests issued after it have settled already.
C18_StaleAnswerOverwrites ==
  [][\A r \in pending : \A resp \in ChartResponses(r.days) :
       (/\ ~TransportFailure(resp)
        /\ "prices" \in DOMAIN resp.body
        /\ ChartSettles(r, resp)) =>
         chartData' = FormatChart(resp.body.prices)]_vars

\* No short-term request is in flight, the one for the selected 7d has been
\* issued and has settled, and the series on display is spaced for 24h.
C18_Witness ==
  /\ mounted
  /\ ethPrice # Null
  /\ timeframe = "7d"
  /\ ChartDaysInFlight = {}
  /\ issued[<<"chart", "effect">>] = 2
  /\ Len(chartData) > 0
  /\ chartData[1].timestamp = ChartPoint(Days("24h"), 1, 0)[1]
  /\ chartData[1].timestamp # ChartPoint(Days(timeframe), 1, 0)[1]

\* C19: quote fetches write in the order in which they complete.  A quote
\* fetch that succeeds, whenever it was issued, makes ethPrice and
\* priceChange24h those of its answer and clears error; one that fails (network
\* error, non-2xx status, malformed payload) leaves the two as they were and
\* sets error; no other step writes any of the three.  So the quote is that of
\* the last fetch to have succeeded, and error stands exactly when the last
\* fetch to have completed failed.
C19_LastCompletedQuoteWins ==
  [][/\ \A r \in pending : \A resp \in QuoteResponses :
          QuoteSettles(r, resp) =>
            IF TransportFailure(resp) \/ MalformedQuote(resp)
              THEN /\ ethPrice' = ethPrice
                   /\ priceChange24h' = priceChange24h
                   /\ error' # Null
              ELSE /\ ethPrice' = resp.body.ethereum.usd
                   /\ priceChange24h' = resp.body.ethereum.usd_24h_change
                   /\ error' = Null
     /\ (\A r \in pending : r.fetcher = "quote" => r \in pending') =>
          UNCHANGED <<ethPrice, priceChange24h, error>>]_vars

\* C20: the interval belongs to the mounted view.  It is armed by the step
\* that mounts the view and by no other, it is cleared by the step that removes
\* the view, it is never armed while the view is not mounted, and once the view
\* is removed no step issues a timer-triggered quote request again, while the
\* requests in flight still settle.
C20_TimerOwnedByMount ==
  [][/\ (interval' /\ ~interval) => (mounted' /\ ~mounted /\ initPc = "start")
     /\ (mounted' /\ ~mounted) => interval'
     /\ (mounted /\ ~mounted') => ~interval'
     /\ interval' => mounted'
     /\ ~mounted' => issued'[<<"quote", "timer">>] = issued[<<"quote", "timer">>]
     /\ (~mounted /\ initPc # "start") => ~mounted']_vars

\* The view was removed after one tick; that tick's request has settled since,
\* and no second tick came although the session allows one more event.
C20_Witness ==
  /\ ~mounted
  /\ ~interval
  /\ initPc = "done"
  /\ issued[<<"quote", "timer">>] = 1
  /\ events < MaxEvents
  /\ pending = {}
  /\ ethPrice # Undefined

====
